---- MODULE Spec2Model ----
(***************************************************************************)
(* A model of vite-plugin-markdown's transform (src/src/index.ts).          *)
(*                                                                         *)
(* A JavaScript string is a sequence of chunks (TLA+ strings); the chunks  *)
(* that matter to the text substitutions of the code (the double quote,    *)
(* the two marker words, the comma) are always chunks of their own, so a   *)
(* regular expression of the code is a pattern of consecutive chunks.      *)
(* A rendered HTML string is a sequence of markup tokens; every pass       *)
(* parses it into a tree of its own.                                       *)
(***************************************************************************)
EXTENDS Naturals, Sequences, FiniteSets, TLC

VARIABLES options, pc, code, content, renderer, html, tocValue, reactRoot,
          reactMarkup, vueRoot, vueSource, result, prev

vars == <<options, pc, code, content, renderer, html, tocValue, reactRoot,
          reactMarkup, vueRoot, vueSource, result, prev>>

\* ------------------------------------------------------------------ bounds

\* nodes of a rendered document in the specifications of a single pass
MaxNodes == 3
\* nodes of a rendered document where every option combination is explored
MaxGeneralNodes == 2
\* nodes of a rendered document where two calls are compared
MaxPairNodes == 2

\* ------------------------------------------------------------------- Mode

TOC == "toc"
HTML == "html"
REACT == "react"
VUE == "vue"
Mode == {TOC, HTML, REACT, VUE}

\* ------------------------------------------------------------ strings

QUOTE == "\""
MarkerOpen == "vfm{{"
MarkerClose == "}}vfm"
\* the chunk that stands for the backquote of a template literal
BACKTICK == "BACKTICK"

RECURSIVE Concat(_)
\* the concatenation of a sequence of strings
Concat(ss) == IF ss = <<>> THEN <<>> ELSE Head(ss) \o Concat(Tail(ss))

RECURSIVE JoinWith(_, _)
\* Array.prototype.join: the strings of ss with sep between them
JoinWith(ss, sep) ==
  IF ss = <<>> THEN <<>>
  ELSE IF Len(ss) = 1 THEN ss[1]
  ELSE ss[1] \o sep \o JoinWith(Tail(ss), sep)

RECURSIVE ReplaceAll(_, _, _)
\* String.prototype.replace with a global pattern of consecutive chunks
ReplaceAll(s, pat, by) ==
  IF Len(s) < Len(pat) THEN s
  ELSE IF SubSeq(s, 1, Len(pat)) = pat
       THEN by \o ReplaceAll(SubSeq(s, Len(pat) + 1, Len(s)), pat, by)
       ELSE <<s[1]>> \o ReplaceAll(Tail(s), pat, by)

\* whether pat occurs in s
Occurs(pat, s) ==
  \E i \in 1..(Len(s) + 1 - Len(pat)) : SubSeq(s, i, i + Len(pat) - 1) = pat

\* -------------------------------------------------------------- the trees

ElementNode(name, attribs, children) ==
  [type |-> "tag", name |-> name, attribs |-> attribs, children |-> children,
   data |-> <<>>]
TextNode(data) ==
  [type |-> "text", name |-> "", attribs |-> <<>>, children |-> <<>>, data |-> data]
CommentNode(data) ==
  [type |-> "comment", name |-> "", attribs |-> <<>>, children |-> <<>>,
   data |-> data]

IsElement(node) == node.type = "tag"

HasAttr(attribs, key) == \E i \in 1..Len(attribs) : attribs[i][1] = key

\* attribs[key], for a key that is present
GetAttr(attribs, key) ==
  attribs[CHOOSE i \in 1..Len(attribs) : attribs[i][1] = key][2]

\* attribs[key] = value: an existing key keeps its place, a new one is last
SetAttr(attribs, key, value) ==
  IF HasAttr(attribs, key)
  THEN [i \in 1..Len(attribs) |->
          IF attribs[i][1] = key THEN <<key, value>> ELSE attribs[i]]
  ELSE Append(attribs, <<key, value>>)

\* delete attribs[key]
DeleteAttr(attribs, key) == SelectSeq(attribs, LAMBDA a : a[1] # key)

\* ---------------------------------------------------- the rendered HTML

OpenTok(name, attribs) ==
  [k |-> "open", name |-> name, attribs |-> attribs, data |-> <<>>]
CloseTok(name) == [k |-> "close", name |-> name, attribs |-> <<>>, data |-> <<>>]
TextTok(data) == [k |-> "text", name |-> "", attribs |-> <<>>, data |-> data]
CommentTok(data) == [k |-> "comment", name |-> "", attribs |-> <<>>, data |-> data]

RECURSIVE RawAttrs(_)
\* the text of a tag's attributes as the renderer wrote them
RawAttrs(attribs) ==
  IF attribs = <<>> THEN <<>>
  ELSE <<" ", attribs[1][1], "=", QUOTE>> \o attribs[1][2] \o <<QUOTE>>
       \o RawAttrs(Tail(attribs))

\* the text of one token of the rendered HTML
RawTok(tok) ==
  CASE tok.k = "open" -> <<"<", tok.name>> \o RawAttrs(tok.attribs) \o <<">">>
    [] tok.k = "close" -> <<"</", tok.name, ">">>
    [] tok.k = "comment" -> <<"<!--">> \o tok.data \o <<"-->">>
    [] OTHER -> tok.data

RECURSIVE RawText(_)
\* the text of a run of tokens
RawText(toks) == IF toks = <<>> THEN <<>> ELSE RawTok(toks[1]) \o RawText(Tail(toks))

RECURSIVE Markup(_)
\* the rendered HTML whose document structure is the forest
Markup(forest) ==
  IF forest = <<>> THEN <<>>
  ELSE LET n == forest[1]
       IN (CASE n.type = "tag" ->
                  <<OpenTok(n.name, n.attribs)>> \o Markup(n.children)
                  \o <<CloseTok(n.name)>>
             [] n.type = "comment" -> <<CommentTok(n.data)>>
             [] OTHER -> <<TextTok(n.data)>>)
          \o Markup(Tail(forest))

RECURSIVE TreesOf(_, _, _)
RECURSIVE ForestsOf(_, _, _)
\* the trees of exactly n nodes over the element labels E and the leaves L
TreesOf(n, E, L) ==
  IF n = 0 THEN {}
  ELSE (IF n = 1 THEN L ELSE {})
       \cup {ElementNode(e.name, e.attribs, kids) :
               e \in E, kids \in ForestsOf(n - 1, E, L)}
\* the forests of exactly n nodes
ForestsOf(n, E, L) ==
  IF n = 0 THEN {<<>>}
  ELSE UNION {{<<t>> \o f : t \in TreesOf(j, E, L), f \in ForestsOf(n - j, E, L)} :
                j \in 1..n}

\* the forests of at most n nodes
ForestsUpTo(n, E, L) == UNION {ForestsOf(k, E, L) : k \in 0..n}

RECURSIVE WellFormed(_, _)
\* what a rendered HTML string can be: two text runs are never adjacent (they
\* are one run), a heading holds no heading and a pre holds no pre
WellFormed(forest, parent) ==
  \A i \in 1..Len(forest) :
    /\ (i > 1 /\ forest[i].type = "text") => forest[i - 1].type # "text"
    /\ forest[i].type = "tag" =>
         /\ ~(forest[i].name \in {"h1", "h2", "h3", "h4", "h5", "h6"}
              /\ parent \in {"h1", "h2", "h3", "h4", "h5", "h6"})
         /\ ~(forest[i].name = "pre" /\ parent = "pre")
         /\ WellFormed(forest[i].children,
                       IF parent = "pre" THEN "pre" ELSE forest[i].name)

\* the rendered HTML strings of at most n nodes
Documents(n, E, L) ==
  {Markup(f) : f \in {g \in ForestsUpTo(n, E, L) : WellFormed(g, "")}}

\* ------------------------------------------------- htmlparser2, domutils

RECURSIVE ParseDOMFrom(_, _)
\* the sibling nodes that start at token i, and the index after them
ParseDOMFrom(toks, i) ==
  IF i > Len(toks) \/ toks[i].k = "close" THEN [nodes |-> <<>>, next |-> i]
  ELSE IF toks[i].k = "open"
       THEN LET inner == ParseDOMFrom(toks, i + 1)
                rest == ParseDOMFrom(toks, inner.next + 1)
            IN [nodes |-> <<ElementNode(toks[i].name, toks[i].attribs, inner.nodes)>>
                          \o rest.nodes,
                next |-> rest.next]
       ELSE LET rest == ParseDOMFrom(toks, i + 1)
                node == IF toks[i].k = "comment" THEN CommentNode(toks[i].data)
                        ELSE TextNode(toks[i].data)
            IN [nodes |-> <<node>> \o rest.nodes, next |-> rest.next]

\* parseDOM(html): the top-level nodes, entities left as written
ParseDOM(toks) == ParseDOMFrom(toks, 1).nodes

\* the serializer's attribute value: a double quote becomes &quot;
EscapeAttr(value) == [i \in 1..Len(value) |-> IF value[i] = QUOTE THEN "&quot;" ELSE value[i]]

RECURSIVE FormatAttrs(_)
\* the serializer's attributes: key="value", or the bare key of an empty value
FormatAttrs(attribs) ==
  IF attribs = <<>> THEN <<>>
  ELSE (IF attribs[1][2] = <<>> THEN <<" ", attribs[1][1]>>
        ELSE <<" ", attribs[1][1], "=", QUOTE>> \o EscapeAttr(attribs[1][2])
             \o <<QUOTE>>)
       \o FormatAttrs(Tail(attribs))

RECURSIVE GetOuterHTML(_)
\* DomUtils.getOuterHTML of a list of nodes
GetOuterHTML(nodes) ==
  IF nodes = <<>> THEN <<>>
  ELSE LET n == nodes[1]
       IN (CASE n.type = "tag" ->
                  <<"<", n.name>> \o FormatAttrs(n.attribs) \o <<">">>
                  \o GetOuterHTML(n.children) \o <<"</", n.name, ">">>
             [] n.type = "comment" -> <<"<!--">> \o n.data \o <<"-->">>
             [] OTHER -> n.data)
          \o GetOuterHTML(Tail(nodes))

\* DomUtils.getInnerHTML of an element
GetInnerHTML(node) == GetOuterHTML(node.children)

\* ------------------------------------------------------ node-html-parser

kBlockTextElements == {"script", "noscript", "style", "pre"}

NoParseOptions == [o \in {"pre", "script", "comment", "style"} |-> FALSE]
VueParseOptions == [o \in {"pre", "script", "comment", "style"} |-> TRUE]

OptionOn(opts, name) == name \in DOMAIN opts /\ opts[name]

\* the index of the first closing tag of name after token i
FirstClose(toks, i, name) ==
  CHOOSE j \in (i + 1)..Len(toks) :
    /\ toks[j].k = "close" /\ toks[j].name = name
    /\ \A m \in (i + 1)..(j - 1) : ~(toks[m].k = "close" /\ toks[m].name = name)

RECURSIVE ParseFrom(_, _, _)
\* the sibling nodes that start at token i, and the index after them: a
\* comment is kept only on request, and the content of a block text element
\* is not parsed: it is dropped, or kept as one text node on request
ParseFrom(toks, i, opts) ==
  IF i > Len(toks) \/ toks[i].k = "close" THEN [nodes |-> <<>>, next |-> i]
  ELSE IF toks[i].k = "open" /\ toks[i].name \in kBlockTextElements
       THEN LET j == FirstClose(toks, i, toks[i].name)
                text == RawText(SubSeq(toks, i + 1, j - 1))
                kids == IF OptionOn(opts, toks[i].name) /\ text # <<>>
                        THEN <<TextNode(text)>> ELSE <<>>
                rest == ParseFrom(toks, j + 1, opts)
            IN [nodes |-> <<ElementNode(toks[i].name, toks[i].attribs, kids)>>
                          \o rest.nodes,
                next |-> rest.next]
  ELSE IF toks[i].k = "open"
       THEN LET inner == ParseFrom(toks, i + 1, opts)
                rest == ParseFrom(toks, inner.next + 1, opts)
            IN [nodes |-> <<ElementNode(toks[i].name, toks[i].attribs, inner.nodes)>>
                          \o rest.nodes,
                next |-> rest.next]
  ELSE IF toks[i].k = "comment"
       THEN LET rest == ParseFrom(toks, i + 1, opts)
            IN [nodes |-> (IF OptionOn(opts, "comment")
                           THEN <<CommentNode(toks[i].data)>> ELSE <<>>)
                          \o rest.nodes,
                next |-> rest.next]
  ELSE LET rest == ParseFrom(toks, i + 1, opts)
       IN [nodes |-> <<TextNode(toks[i].data)>> \o rest.nodes, next |-> rest.next]

\* parse(html, options): the child nodes of the root
Parse(toks, opts) == ParseFrom(toks, 1, opts).nodes

RECURSIVE NodesToStrings(_)
\* each node's toString()
NodesToStrings(nodes) ==
  IF nodes = <<>> THEN <<>>
  ELSE LET n == nodes[1]
       IN <<CASE n.type = "tag" ->
                   <<"<", n.name>> \o RawAttrs(n.attribs) \o <<">">>
                   \o Concat(NodesToStrings(n.children)) \o <<"</", n.name, ">">>
              [] n.type = "comment" -> <<"<!--">> \o n.data \o <<"-->">>
              [] OTHER -> n.data>>
          \o NodesToStrings(Tail(nodes))

\* root.toString(): the inner HTML of the root
RootToString(nodes) == Concat(NodesToStrings(nodes))

\* element.setAttribute(key, value)
SetAttribute(node, key, value) == [node EXCEPT !.attribs = SetAttr(@, key, value)]

\* ------------------------------------------------------- JavaScript values

JsString(text) == [type |-> "string", val |-> text]
JsObject(val) == [type |-> "object", val |-> val]

\* JSON.stringify(value): the JSON text of the value
JsonStringify(val) == [json |-> val]

\* -------------------------------------------------------- markdownCompiler

UndefinedOption == "undefined"

\* options.mode?.includes(m)
ModeIncludes(opts, m) == opts.mode.given /\ m \in opts.mode.items

\* the xhtmlOut option of the default renderer
XhtmlOut(opts) ==
  IF ~opts.mode.given THEN "undefined"
  ELSE IF REACT \in opts.mode.items THEN "true" ELSE "false"

DefaultRenderer(opts) ==
  [kind |-> "default", htmlOption |-> "true", xhtmlOut |-> XhtmlOut(opts)]

\* the selection that asks for the custom function first
MarkdownFirstCompiler(opts) ==
  IF opts.markdown # UndefinedOption
  THEN [kind |-> "custom", htmlOption |-> "none", xhtmlOut |-> "none"]
  ELSE IF opts.markdownIt = "instance"
  THEN [kind |-> "instance", htmlOption |-> "none", xhtmlOut |-> "none"]
  ELSE IF opts.markdownIt = "options"
  THEN [kind |-> "configured", htmlOption |-> "none", xhtmlOut |-> "none"]
  ELSE DefaultRenderer(opts)

\* the renderer the options select
markdownCompiler(opts) ==
  IF opts.markdownIt # UndefinedOption
  THEN IF opts.markdownIt = "instance"
       THEN [kind |-> "instance", htmlOption |-> "none", xhtmlOut |-> "none"]
       ELSE IF opts.markdownIt = "options"
       THEN [kind |-> "configured", htmlOption |-> "none", xhtmlOut |-> "none"]
       ELSE DefaultRenderer(opts)
  ELSE IF opts.markdown # UndefinedOption
  THEN [kind |-> "custom", htmlOption |-> "none", xhtmlOut |-> "none"]
  ELSE DefaultRenderer(opts)

\* --------------------------------------------------------- ExportedContent

NewExportedContent == [exports |-> <<>>, contextCode |-> <<>>]

\* an auxiliary statement, and the contextCode argument that is not given
ContextCode(kind, text) == [kind |-> kind, text |-> text]
NoContextCode == ContextCode("none", <<>>)

\* addProperty(key, value, contextCode)
AddProperty(c, key, value, contextCode) ==
  LET exportedContent == IF value.type = "string" THEN [form |-> "source", of |-> value.val]
                         ELSE [form |-> "json", of |-> JsonStringify(value.val)]
  IN [exports |-> Append(c.exports, [key |-> key, exported |-> exportedContent]),
      contextCode |-> IF contextCode # NoContextCode
                      THEN Append(c.contextCode, contextCode)
                      ELSE c.contextCode]

\* export(): the auxiliary statements, then the export statements
Export(c) == [contextCode |-> c.contextCode, exports |-> c.exports]

\* ------------------------------------------------------------ Mode.TOC

Headings == {"h1", "h2", "h3", "h4", "h5", "h6"}

\* the characters of the heading tag names
HeadingChars ==
  [h1 |-> <<"h", "1">>, h2 |-> <<"h", "2">>, h3 |-> <<"h", "3">>,
   h4 |-> <<"h", "4">>, h5 |-> <<"h", "5">>, h6 |-> <<"h", "6">>]

RECURSIVE ReplaceFirst(_, _, _)
\* String.prototype.replace with a string pattern: the first occurrence only
ReplaceFirst(s, c, by) ==
  IF s = <<>> THEN <<>>
  ELSE IF s[1] = c THEN by \o Tail(s)
  ELSE <<s[1]>> \o ReplaceFirst(Tail(s), c, by)

\* childNodes.toString(): Array.prototype.toString joins with commas
ChildNodesToString(nodes) == JoinWith(NodesToStrings(nodes), <<",">>)

\* root.childNodes.filter(...): the top-level headings
Indicies(root) == SelectSeq(root, LAMBDA n : IsElement(n) /\ n.name \in Headings)

\* the toc of a rendered HTML string
Toc(toks) ==
  LET indicies == Indicies(Parse(toks, NoParseOptions))
  IN [i \in 1..Len(indicies) |->
        [level |-> JsString(ReplaceFirst(HeadingChars[indicies[i].name], "h", <<>>)),
         content |-> JsString(ChildNodesToString(indicies[i].children))]]

\* ------------------------------------------------------------ Mode.REACT

\* the rename that does not ask for the tag
RenameClassOfAnyTag(node) ==
  IF HasAttr(node.attribs, "class") /\ GetAttr(node.attribs, "class") # <<>>
  THEN [node EXCEPT !.attribs =
          DeleteAttr(SetAttr(node.attribs, "className", GetAttr(node.attribs, "class")),
                     "class")]
  ELSE node

\* the rename that leaves the class attribute in place
RenameClassKeepingClass(node) ==
  IF node.name \in {"pre", "code"} /\ HasAttr(node.attribs, "class")
     /\ GetAttr(node.attribs, "class") # <<>>
  THEN [node EXCEPT !.attribs =
          SetAttr(node.attribs, "className", GetAttr(node.attribs, "class"))]
  ELSE node

\* class becomes className on a pre or code whose class is not empty
RenameClass(node) ==
  IF node.name \in {"pre", "code"} /\ HasAttr(node.attribs, "class")
     /\ GetAttr(node.attribs, "class") # <<>>
  THEN [node EXCEPT !.attribs =
          DeleteAttr(SetAttr(node.attribs, "className", GetAttr(node.attribs, "class")),
                     "class")]
  ELSE node

\* the value of the binding: the inner HTML between the two markers
Binding(codeContent) ==
  <<MarkerOpen, " __html: ", BACKTICK>> \o codeContent \o <<BACKTICK, MarkerClose>>

\* a code element gives its inner HTML to the binding and loses its children
InjectCode(node) ==
  IF node.name = "code"
  THEN [node EXCEPT
          !.attribs = SetAttr(@, "dangerouslySetInnerHTML", Binding(GetInnerHTML(node))),
          !.children = <<>>]
  ELSE node

RECURSIVE ReactMarkCodeAsPre(_)
\* markCodeAsPre of the React branch
ReactMarkCodeAsPre(node) ==
  IF IsElement(node)
  THEN LET marked == InjectCode(RenameClass(node))
       IN IF Len(marked.children) > 0
          THEN [marked EXCEPT
                  !.children = [i \in 1..Len(@) |-> ReactMarkCodeAsPre(@[i])]]
          ELSE marked
  ELSE node

\* root.forEach(markCodeAsPre) on the tree parsed for this pass
ReactTree(toks) ==
  LET root == ParseDOM(toks)
  IN [i \in 1..Len(root) |-> ReactMarkCodeAsPre(root[i])]

\* the two substitutions that take the markers away
StripMarkers(s) ==
  ReplaceAll(ReplaceAll(s, <<QUOTE, MarkerOpen>>, <<"{{">>),
             <<MarkerClose, QUOTE>>, <<"}}">>)

\* h: the serialized tree without the markers
ReactMarkup(root) == StripMarkers(GetOuterHTML(root))

\* compiledReactCode: the component around the transformed JSX
CompiledReactCode(h) == [wrapper |-> "function (props)", babel |-> h]

\* ------------------------------------------------------------- Mode.VUE

\* the top-level marking that forgets pre
MarkTopLevelCodeOnly(root) ==
  [i \in 1..Len(root) |->
     IF IsElement(root[i]) /\ root[i].name = "code"
     THEN SetAttribute(root[i], "v-pre", <<"true">>) ELSE root[i]]

\* top-level pre and code get v-pre
MarkTopLevel(root) ==
  [i \in 1..Len(root) |->
     IF IsElement(root[i]) /\ root[i].name \in {"pre", "code"}
     THEN SetAttribute(root[i], "v-pre", <<"true">>) ELSE root[i]]

RECURSIVE VueMarkCodeAsPre(_)
\* markCodeAsPre of the Vue branch: every code element gets v-pre
VueMarkCodeAsPre(node) ==
  IF IsElement(node)
  THEN LET marked == IF node.name = "code"
                     THEN SetAttribute(node, "v-pre", <<"true">>) ELSE node
       IN IF Len(marked.children) > 0
          THEN [marked EXCEPT
                  !.children = [i \in 1..Len(@) |-> VueMarkCodeAsPre(@[i])]]
          ELSE marked
  ELSE node

\* the parse that reuses the tree of the outline when one was parsed
VueParseShared(toks) ==
  IF ModeIncludes(options, TOC) THEN Parse(toks, NoParseOptions)
  ELSE Parse(toks, VueParseOptions)

\* the parse of the Vue branch: a tree of its own
VueParse(toks) == Parse(toks, VueParseOptions)

\* the tree of the Vue branch after both markings
VueTree(toks) ==
  LET top == MarkTopLevel(VueParse(toks))
  IN [i \in 1..Len(top) |-> VueMarkCodeAsPre(top[i])]

\* vueCode: the compiled template with its render function renamed
VueCode(source) == ContextCode("function vueRender", source)

\* ------------------------------------------------------------- the state

NoCode == [frontmatter |-> "none", attributes |-> "none"]
NoRenderer == [kind |-> "none", htmlOption |-> "none", xhtmlOut |-> "none"]
NoResult == [kind |-> "none", error |-> "none", code |-> NewExportedContent]
NoOutput == [exports |-> <<>>, contextCode |-> <<>>]
NoPrev == [calls |-> 0, html |-> <<>>, seen |-> {}, toc |-> NoOutput, react |-> NoOutput,
           vue |-> NoOutput]

\* module.exports(): the default options are {}
DefaultOptions ==
  [mode |-> [given |-> FALSE, items |-> {}], markdownIt |-> UndefinedOption,
   markdown |-> UndefinedOption]

\* the values of PluginOptions over the modes M
PluginOptions(M) ==
  [mode : {[given |-> FALSE, items |-> {}]}
          \cup {[given |-> TRUE, items |-> m] : m \in SUBSET M},
   markdownIt : {UndefinedOption, "instance", "options"},
   markdown : {UndefinedOption, "function"}]

\* the values of PluginOptions that give the modes only
ModeOptions(MM) ==
  {[mode |-> [given |-> TRUE, items |-> m], markdownIt |-> UndefinedOption,
    markdown |-> UndefinedOption] : m \in MM}

\* the source documents: a frontmatter block that parses, or one that does not
Sources ==
  {[frontmatter |-> "valid", attributes |-> a] : a \in {"{}", "{title}"}}
  \cup {[frontmatter |-> "invalid", attributes |-> "none"]}

\* a source document with no frontmatter
PlainSource == {[frontmatter |-> "valid", attributes |-> "{}"]}

Init ==
  /\ options = DefaultOptions
  /\ pc = "idle"
  /\ code = NoCode
  /\ content = NewExportedContent
  /\ renderer = NoRenderer
  /\ html = <<>>
  /\ tocValue = <<>>
  /\ reactRoot = <<>>
  /\ reactMarkup = <<>>
  /\ vueRoot = <<>>
  /\ vueSource = <<>>
  /\ result = NoResult
  /\ prev = NoPrev

\* the failure that returns what was exported so far
ThrowReturningPartial(error) ==
  /\ pc' = "idle"
  /\ result' = [kind |-> "ok", error |-> error, code |-> Export(content)]

\* an exception leaves transform: nothing is returned
Throw(error) ==
  /\ pc' = "idle"
  /\ result' = [kind |-> "error", error |-> error, code |-> NewExportedContent]

\* module.exports(options): a plugin over one of the options O, whose
\* transform has not been called yet
CreatePlugin(O) ==
  /\ pc = "idle"
  /\ \E o \in O : options' = o
  /\ code' = NoCode
  /\ content' = NewExportedContent
  /\ renderer' = NoRenderer
  /\ html' = <<>>
  /\ tocValue' = <<>>
  /\ reactRoot' = <<>>
  /\ reactMarkup' = <<>>
  /\ vueRoot' = <<>>
  /\ vueSource' = <<>>
  /\ result' = NoResult
  /\ UNCHANGED <<pc, prev>>

\* transform({ code, path }) is called: a new ExportedContent
Begin(S) ==
  /\ pc = "idle"
  /\ \E c \in S : code' = c
  /\ content' = NewExportedContent
  /\ renderer' = NoRenderer
  /\ html' = <<>>
  /\ tocValue' = <<>>
  /\ reactRoot' = <<>>
  /\ reactMarkup' = <<>>
  /\ vueRoot' = <<>>
  /\ vueSource' = <<>>
  /\ result' = NoResult
  /\ pc' = "frontmatter"
  /\ UNCHANGED <<options, prev>>

\* Frontmatter(code), then the attributes export
ParseFrontmatter ==
  /\ pc = "frontmatter"
  /\ IF code.frontmatter = "invalid"
     THEN /\ Throw("YAMLException")
          /\ UNCHANGED content
     ELSE /\ content' = AddProperty(content, "attributes", JsObject(code.attributes),
                                     NoContextCode)
          /\ pc' = "render"
          /\ UNCHANGED result
  /\ UNCHANGED <<options, code, renderer, html, tocValue, reactRoot, reactMarkup,
                 vueRoot, vueSource, prev>>

\* markdownCompiler(options).render(fm.body): the renderer returns one of the
\* rendered HTML strings H, or throws; with same it returns what it returned
\* to the call before
Render(H, same) ==
  /\ pc = "render"
  /\ renderer' = markdownCompiler(options)
  /\ \E ok \in BOOLEAN :
       IF ok
       THEN /\ \E h \in H : (same /\ prev.calls > 0 => h = prev.html) /\ html' = h
            /\ pc' = "html"
            /\ UNCHANGED result
       ELSE /\ Throw("RenderError")
            /\ UNCHANGED html
  /\ UNCHANGED <<options, code, content, tocValue, reactRoot, reactMarkup, vueRoot,
                 vueSource, prev>>

\* the html export that does not ask for the mode
ExportHtmlUnconditional ==
  /\ pc = "html"
  /\ content' = AddProperty(content, "html", JsString(JsonStringify(html)), NoContextCode)
  /\ pc' = "toc"
  /\ UNCHANGED <<options, code, renderer, html, tocValue, reactRoot, reactMarkup,
                 vueRoot, vueSource, result, prev>>

\* the html export
ExportHtml ==
  /\ pc = "html"
  /\ content' = IF ModeIncludes(options, HTML)
                THEN AddProperty(content, "html", JsString(JsonStringify(html)), NoContextCode)
                ELSE content
  /\ pc' = "toc"
  /\ UNCHANGED <<options, code, renderer, html, tocValue, reactRoot, reactMarkup,
                 vueRoot, vueSource, result, prev>>

\* the toc export
ExportToc ==
  /\ pc = "toc"
  /\ IF ModeIncludes(options, TOC)
     THEN /\ tocValue' = Toc(html)
          /\ content' = AddProperty(content, "toc", JsObject(Toc(html)), NoContextCode)
     ELSE UNCHANGED <<tocValue, content>>
  /\ pc' = "react"
  /\ UNCHANGED <<options, code, renderer, html, reactRoot, reactMarkup, vueRoot,
                 vueSource, result, prev>>

\* the ReactComponent export; the JSX transform may throw
ExportReact ==
  /\ pc = "react"
  /\ IF ModeIncludes(options, REACT)
     THEN /\ reactRoot' = ReactTree(html)
          /\ reactMarkup' = ReactMarkup(ReactTree(html))
          /\ \E ok \in BOOLEAN :
               IF ok
               THEN /\ content' = AddProperty(content, "ReactComponent",
                                    JsString(CompiledReactCode(ReactMarkup(ReactTree(html)))),
                                    ContextCode("import", <<"import React from \"react\"">>))
                    /\ pc' = "vue"
                    /\ UNCHANGED result
               ELSE /\ Throw("SyntaxError")
                    /\ UNCHANGED content
     ELSE /\ pc' = "vue"
          /\ UNCHANGED <<reactRoot, reactMarkup, content, result>>
  /\ UNCHANGED <<options, code, renderer, html, tocValue, vueRoot, vueSource, prev>>

\* the VueComponent export; compileTemplate may throw
ExportVue ==
  /\ pc = "vue"
  /\ IF ModeIncludes(options, VUE)
     THEN /\ vueRoot' = VueTree(html)
          /\ vueSource' = RootToString(VueTree(html))
          /\ \E ok \in BOOLEAN :
               IF ok
               THEN /\ content' = AddProperty(content, "VueComponent",
                                    JsString(<<"{ render: vueRender }">>),
                                    VueCode(RootToString(VueTree(html))))
                    /\ pc' = "return"
                    /\ UNCHANGED result
               ELSE /\ Throw("CompilerError")
                    /\ UNCHANGED content
     ELSE /\ pc' = "return"
          /\ UNCHANGED <<vueRoot, vueSource, content, result>>
  /\ UNCHANGED <<options, code, renderer, html, tocValue, reactRoot, reactMarkup, prev>>

\* the statements of the module under a key and of an auxiliary kind
Output(c, key, kind) ==
  [exports |-> SelectSeq(c.exports, LAMBDA e : e.key = key),
   contextCode |-> SelectSeq(c.contextCode, LAMBDA x : x.kind = kind)]
TocOutput(c) == Output(c, "toc", "none")
ReactOutput(c) == Output(c, "ReactComponent", "import")
VueOutput(c) == Output(c, "VueComponent", "function vueRender")

\* what the passes of this call exported, kept beside what earlier calls did
Recorded ==
  [calls |-> 1,
   html |-> html,
   seen |-> prev.seen \cup (options.mode.items \cap {TOC, REACT, VUE}),
   toc |-> IF ModeIncludes(options, TOC) THEN TocOutput(Export(content)) ELSE prev.toc,
   react |-> IF ModeIncludes(options, REACT) THEN ReactOutput(Export(content))
             ELSE prev.react,
   vue |-> IF ModeIncludes(options, VUE) THEN VueOutput(Export(content)) ELSE prev.vue]

\* return { code: content.export() }
Return(record) ==
  /\ pc = "return"
  /\ result' = [kind |-> "ok", error |-> "none", code |-> Export(content)]
  /\ pc' = "idle"
  /\ prev' = IF record THEN Recorded ELSE prev
  /\ UNCHANGED <<options, code, content, renderer, html, tocValue, reactRoot,
                 reactMarkup, vueRoot, vueSource>>

\* ------------------------------------------------- the rendered documents

Label(name, attribs) == [name |-> name, attribs |-> attribs]

GeneralDocuments ==
  Documents(MaxGeneralNodes,
            {Label("h2", <<>>), Label("code", <<<<"class", <<"x">>>>>>)},
            {TextNode(<<"a">>)})

TocDocuments ==
  Documents(MaxNodes,
            {Label("h2", <<>>), Label("h3", <<>>), Label("div", <<>>), Label("em", <<>>)},
            {TextNode(<<"A">>)})

ReactDocuments ==
  Documents(MaxNodes,
            {Label("div", <<<<"class", <<"x">>>>>>), Label("pre", <<<<"class", <<"x">>>>>>),
             Label("code", <<<<"class", <<"x">>>>>>), Label("code", <<<<"class", <<>>>>>>)},
            {TextNode(<<"a">>), TextNode(<<QUOTE, MarkerOpen, "b", MarkerClose, QUOTE>>),
             CommentNode(<<"c">>)})

VueDocuments ==
  Documents(MaxNodes,
            {Label("div", <<>>), Label("pre", <<>>), Label("code", <<>>), Label("p", <<>>)},
            {TextNode(<<"{{ x }}">>)})

PairDocuments ==
  Documents(MaxPairNodes,
            {Label("pre", <<>>), Label("code", <<>>), Label("h2", <<>>)},
            {TextNode(<<"a">>)})

\* ------------------------------------------------------ the specifications

\* every option combination, on small documents
Next ==
  \/ CreatePlugin(PluginOptions(Mode))
  \/ Begin(Sources)
  \/ ParseFrontmatter
  \/ Render(GeneralDocuments, FALSE)
  \/ ExportHtml
  \/ ExportToc
  \/ ExportReact
  \/ ExportVue
  \/ Return(FALSE)

Spec == Init /\ [][Next]_vars

\* the outline pass
NextToc ==
  \/ CreatePlugin(ModeOptions({{TOC}}))
  \/ Begin(PlainSource)
  \/ ParseFrontmatter
  \/ Render(TocDocuments, FALSE)
  \/ ExportHtml
  \/ ExportToc
  \/ ExportReact
  \/ ExportVue
  \/ Return(FALSE)

SpecToc == Init /\ [][NextToc]_vars

\* the React pass
NextReact ==
  \/ CreatePlugin(ModeOptions({{REACT}}))
  \/ Begin(PlainSource)
  \/ ParseFrontmatter
  \/ Render(ReactDocuments, FALSE)
  \/ ExportHtml
  \/ ExportToc
  \/ ExportReact
  \/ ExportVue
  \/ Return(FALSE)

SpecReact == Init /\ [][NextReact]_vars

\* the Vue pass
NextVue ==
  \/ CreatePlugin(ModeOptions({{VUE}}))
  \/ Begin(PlainSource)
  \/ ParseFrontmatter
  \/ Render(VueDocuments, FALSE)
  \/ ExportHtml
  \/ ExportToc
  \/ ExportReact
  \/ ExportVue
  \/ Return(FALSE)

SpecVue == Init /\ [][NextVue]_vars

\* calls of plugins of different modes on one rendered HTML string
NextPair ==
  \/ CreatePlugin(ModeOptions(SUBSET {TOC, REACT, VUE}))
  \/ Begin(PlainSource)
  \/ ParseFrontmatter
  \/ Render(PairDocuments, TRUE)
  \/ ExportHtml
  \/ ExportToc
  \/ ExportReact
  \/ ExportVue
  \/ Return(TRUE)

SpecPair == Init /\ [][NextPair]_vars

\* -------------------------------------------------- the claims: helpers

RECURSIVE Paths(_)
\* the places of the nodes of a forest: the child indices from the top
Paths(forest) ==
  UNION {{<<i>>} \cup {<<i>> \o q : q \in Paths(forest[i].children)} :
           i \in 1..Len(forest)}

RECURSIVE HasPath(_, _)
HasPath(forest, p) ==
  /\ p # <<>>
  /\ p[1] \in 1..Len(forest)
  /\ (Len(p) > 1 => HasPath(forest[p[1]].children, Tail(p)))

RECURSIVE NodeAt(_, _)
NodeAt(forest, p) ==
  IF Len(p) = 1 THEN forest[p[1]] ELSE NodeAt(forest[p[1]].children, Tail(p))

\* whether the node at p is below an element called name
Below(forest, p, name) ==
  \E k \in 1..(Len(p) - 1) : NodeAt(forest, SubSeq(p, 1, k)).name = name

\* the document the rendered HTML string describes
Document == ParseDOM(html)

\* the passes of the current call have all run
PassesDone == pc = "return"

ExportKeys(c) == {c.exports[i].key : i \in 1..Len(c.exports)}

KeyOf(m) ==
  CASE m = HTML -> "html"
    [] m = TOC -> "toc"
    [] m = REACT -> "ReactComponent"
    [] m = VUE -> "VueComponent"

\* ----------------------------------------------------------------- C1

\* C1: the module text of a transform that succeeds exports attributes
\* always and html, toc, ReactComponent, VueComponent exactly when the mode
\* has rawHtml, outline, frameworkA, frameworkB, and nothing else; with an
\* empty or omitted mode it is the attributes export alone, with no auxiliary
\* statement.
C1_ExportsFollowMode ==
  result.kind = "ok" =>
    /\ "attributes" \in ExportKeys(result.code)
    /\ \A m \in Mode : KeyOf(m) \in ExportKeys(result.code) <=> ModeIncludes(options, m)
    /\ ExportKeys(result.code) \subseteq {"attributes"} \cup {KeyOf(m) : m \in Mode}
    /\ (~options.mode.given \/ options.mode.items = {}) =>
         /\ Len(result.code.exports) = 1
         /\ result.code.contextCode = <<>>

C1_Witness ==
  /\ result.kind = "ok"
  /\ options.mode.given
  /\ options.mode.items = {TOC, VUE}
  /\ Len(result.code.exports) = 3

\* ----------------------------------------------------------------- C2

JsNumber(text) == [type |-> "number", val |-> text]

HeadingLevel ==
  [h1 |-> <<"1">>, h2 |-> <<"2">>, h3 |-> <<"3">>, h4 |-> <<"4">>, h5 |-> <<"5">>,
   h6 |-> <<"6">>]

\* one entry per top-level heading of the document, in document order
Outline(doc) ==
  LET hs == SelectSeq(doc, LAMBDA n : IsElement(n) /\ n.name \in Headings)
  IN [i \in 1..Len(hs) |->
        [level |-> JsNumber(HeadingLevel[hs[i].name]),
         content |-> JsString(RawText(Markup(hs[i].children)))]]

\* C2: the outline has exactly one entry per top-level h1..h6 of the
\* document, in document order, its level the integer of the tag name and
\* its content the serialized children of the heading; a nested heading is
\* never in it.
C2_TocIsOutline ==
  (PassesDone /\ ModeIncludes(options, TOC)) => tocValue = Outline(Document)

\* ----------------------------------------------------------------- C3

\* the binding of a payload as a live expression of the markup
LiveBinding(payload) ==
  <<" ", "dangerouslySetInnerHTML", "=", "{{", " __html: ", BACKTICK>> \o payload
  \o <<BACKTICK, "}}">>

\* C3: after the React pass every code element the walk reached has no
\* children and a binding whose payload is the inner markup it had, and the
\* final markup holds that payload verbatim as a live expression.
C3_CodeBecomesBinding ==
  (PassesDone /\ ModeIncludes(options, REACT)) =>
    \A p \in Paths(Document) :
      LET n == NodeAt(Document, p)
      IN (IsElement(n) /\ n.name = "code" /\ ~Below(Document, p, "code")) =>
           /\ HasPath(reactRoot, p)
           /\ NodeAt(reactRoot, p).children = <<>>
           /\ HasAttr(NodeAt(reactRoot, p).attribs, "dangerouslySetInnerHTML")
           /\ GetAttr(NodeAt(reactRoot, p).attribs, "dangerouslySetInnerHTML")
                = <<MarkerOpen, " __html: ", BACKTICK>> \o GetInnerHTML(n)
                  \o <<BACKTICK, MarkerClose>>
           /\ Occurs(LiveBinding(GetInnerHTML(n)), reactMarkup)

\* ----------------------------------------------------------------- C4

\* a pre or code element of the document that carries a class attribute
CarriesClass(n) ==
  IsElement(n) /\ n.name \in {"pre", "code"} /\ HasAttr(n.attribs, "class")

\* the node at p came out with className in the place of class
Renamed(p) ==
  /\ HasPath(reactRoot, p)
  /\ HasAttr(NodeAt(reactRoot, p).attribs, "className")
  /\ GetAttr(NodeAt(reactRoot, p).attribs, "className")
       = GetAttr(NodeAt(Document, p).attribs, "class")
  /\ ~HasAttr(NodeAt(reactRoot, p).attribs, "class")

\* C4 as claimed: every pre or code element that carried a class attribute,
\* whatever its value and at any depth, has className with that value and no
\* class, and no class attribute of a pre or code is in the emitted markup.
C4_ClassRenamedEverywhere ==
  (PassesDone /\ ModeIncludes(options, REACT)) =>
    /\ \A p \in Paths(Document) : CarriesClass(NodeAt(Document, p)) => Renamed(p)
    /\ \A t \in {"pre", "code"} : ~Occurs(<<"<", t, " ", "class">>, reactMarkup)

\* C4 as amended: every pre or code element that is not inside a code
\* element and carried a class attribute that is not empty has className
\* with that value and no class.
C4_ClassRenamedWhereReached ==
  (PassesDone /\ ModeIncludes(options, REACT)) =>
    \A p \in Paths(Document) :
      (/\ CarriesClass(NodeAt(Document, p))
       /\ GetAttr(NodeAt(Document, p).attribs, "class") # <<>>
       /\ ~Below(Document, p, "code")) => Renamed(p)

C4_Witness ==
  /\ PassesDone /\ ModeIncludes(options, REACT)
  /\ \E p \in Paths(Document) :
       /\ Len(p) = 2
       /\ NodeAt(Document, p).name = "pre"
       /\ CarriesClass(NodeAt(Document, p))
       /\ ~Below(Document, p, "code")
       /\ Renamed(p)

\* ----------------------------------------------------------------- C5

\* the element of the document at p carries v-pre in the emitted tree
CarriesVPre(p) ==
  /\ HasPath(vueRoot, p)
  /\ IsElement(NodeAt(vueRoot, p))
  /\ HasAttr(NodeAt(vueRoot, p).attribs, "v-pre")

\* C5 as claimed: the elements that carry v-pre are exactly the top-level
\* pre and code elements and every code element at any depth.
C5_VPreOnEveryCode ==
  (PassesDone /\ ModeIncludes(options, VUE)) =>
    \A p \in Paths(Document) :
      LET n == NodeAt(Document, p)
      IN IsElement(n) =>
           (CarriesVPre(p) <=>
              \/ Len(p) = 1 /\ n.name \in {"pre", "code"}
              \/ n.name = "code")

\* C5 as amended: the elements that carry v-pre are exactly the top-level
\* pre and code elements and every code element that is not inside a pre.
C5_VPreOnCodeOutsidePre ==
  (PassesDone /\ ModeIncludes(options, VUE)) =>
    \A p \in Paths(Document) :
      LET n == NodeAt(Document, p)
      IN IsElement(n) =>
           (CarriesVPre(p) <=>
              \/ Len(p) = 1 /\ n.name \in {"pre", "code"}
              \/ n.name = "code" /\ ~Below(Document, p, "pre"))

C5_Witness ==
  /\ PassesDone /\ ModeIncludes(options, VUE)
  /\ \E p, q \in Paths(Document) :
       /\ Len(p) = 1 /\ NodeAt(Document, p).name = "pre" /\ CarriesVPre(p)
       /\ Len(q) = 2 /\ NodeAt(Document, q).name = "code" /\ CarriesVPre(q)
       /\ NodeAt(Document, SubSeq(q, 1, 1)).name = "div"

\* ----------------------------------------------------------------- C6

\* the exception the collaborator of a stage throws
StageError(stage) ==
  CASE stage = "frontmatter" -> "YAMLException"
    [] stage = "render" -> "RenderError"
    [] stage = "react" -> "SyntaxError"
    [] stage = "vue" -> "CompilerError"
    [] OTHER -> "none"

C7_PassesDoNotInterfere ==
  (PassesDone /\ prev.calls > 0 /\ html = prev.html) =>
    /\ (TOC \in prev.seen /\ ModeIncludes(options, TOC)) =>
         TocOutput(Export(content)) = prev.toc
    /\ (REACT \in prev.seen /\ ModeIncludes(options, REACT)) =>
         ReactOutput(Export(content)) = prev.react
    /\ (VUE \in prev.seen /\ ModeIncludes(options, VUE)) =>
         VueOutput(Export(content)) = prev.vue

C7_Witness ==
  /\ PassesDone
  /\ prev.calls > 0
  /\ html = prev.html
  /\ prev.seen = {VUE}
  /\ options.mode.items = {TOC, REACT, VUE}
  /\ Len(html) = 3 /\ html[1].name = "pre" /\ html[2].k = "text"
  /\ VueOutput(Export(content)) = prev.vue

\* ----------------------------------------------------------------- C8

RECURSIVE ExpectedAttrs(_, _)
\* the attributes as the serializer writes them, but for the binding of a
\* code element, which is written without its quotes and markers
ExpectedAttrs(attribs, name) ==
  IF attribs = <<>> THEN <<>>
  ELSE (IF name = "code" /\ attribs[1][1] = "dangerouslySetInnerHTML"
        THEN <<" ", attribs[1][1], "=", "{{">>
             \o EscapeAttr(SubSeq(attribs[1][2], 2, Len(attribs[1][2]) - 1))
             \o <<"}}">>
        ELSE FormatAttrs(<<attribs[1]>>))
       \o ExpectedAttrs(Tail(attribs), name)

RECURSIVE ExpectedMarkup(_)
\* the serialized tree with the inserted markers, and nothing else, removed
ExpectedMarkup(nodes) ==
  IF nodes = <<>> THEN <<>>
  ELSE LET n == nodes[1]
       IN (CASE n.type = "tag" ->
                  <<"<", n.name>> \o ExpectedAttrs(n.attribs, n.name) \o <<">">>
                  \o ExpectedMarkup(n.children) \o <<"</", n.name, ">">>
             [] n.type = "comment" -> <<"<!--">> \o n.data \o <<"-->">>
             [] OTHER -> n.data)
          \o ExpectedMarkup(Tail(nodes))

\* C8: the substitution removes the marker pair around every binding the
\* adapter inserted and leaves every other character of the serialized
\* markup as it was, user content with the marker text included.
C8_OnlyMarkersRemoved ==
  (PassesDone /\ ModeIncludes(options, REACT)) =>
    reactMarkup = ExpectedMarkup(reactRoot)

\* ----------------------------------------------------------------- C9

\* C9: a renderer instance or configuration is used when given, before the
\* custom function; the custom function when only it is given; the default
\* renderer, with html on and xhtmlOut on exactly when REACT is asked for,
\* only when neither is given.
C9_RendererSelection ==
  renderer # NoRenderer =>
    IF options.markdownIt = "instance" THEN renderer.kind = "instance"
    ELSE IF options.markdownIt = "options" THEN renderer.kind = "configured"
    ELSE IF options.markdown = "function" THEN renderer.kind = "custom"
    ELSE /\ renderer.kind = "default"
         /\ renderer.htmlOption = "true"
         /\ renderer.xhtmlOut = "true" <=> ModeIncludes(options, REACT)

C9_Witness ==
  /\ renderer.kind = "configured"
  /\ options.markdown = "function"
  /\ pc = "html"

\* ---------------------------------------------------------------- C10

\* the node at p is in its place with its kind, tag, attributes and text
Unchanged(p) ==
  /\ HasPath(reactRoot, p)
  /\ NodeAt(reactRoot, p).type = NodeAt(Document, p).type
  /\ NodeAt(reactRoot, p).name = NodeAt(Document, p).name
  /\ NodeAt(reactRoot, p).attribs = NodeAt(Document, p).attribs
  /\ NodeAt(reactRoot, p).data = NodeAt(Document, p).data

Shape(n) == [type |-> n.type, name |-> n.name, data |-> n.data]

\* the element at p has the children it had, in their order
ChildrenKept(p) ==
  /\ HasPath(reactRoot, p)
  /\ Len(NodeAt(reactRoot, p).children) = Len(NodeAt(Document, p).children)
  /\ \A i \in 1..Len(NodeAt(Document, p).children) :
       Shape(NodeAt(reactRoot, p).children[i]) = Shape(NodeAt(Document, p).children[i])

\* C10 as claimed: every node that is not an element and every element
\* that is neither pre nor code keeps its tag, attributes and position, and
\* every element that is not a code element keeps the order of its children.
C10_OnlyPreCodeChange ==
  (PassesDone /\ ModeIncludes(options, REACT)) =>
    \A p \in Paths(Document) :
      LET n == NodeAt(Document, p)
      IN /\ (~IsElement(n) \/ n.name \notin {"pre", "code"}) => Unchanged(p)
         /\ (IsElement(n) /\ n.name # "code") => ChildrenKept(p)

\* C10 as amended: the same, of the nodes that are not inside a code
\* element (those leave the tree with the children of the code element).
C10_OnlyPreCodeChangeOutsideCode ==
  (PassesDone /\ ModeIncludes(options, REACT)) =>
    \A p \in Paths(Document) :
      LET n == NodeAt(Document, p)
      IN ~Below(Document, p, "code") =>
           /\ (~IsElement(n) \/ n.name \notin {"pre", "code"}) => Unchanged(p)
           /\ (IsElement(n) /\ n.name # "code") => ChildrenKept(p)

C10_Witness ==
  /\ PassesDone /\ ModeIncludes(options, REACT)
  /\ \E p \in Paths(Document) :
       /\ NodeAt(Document, p).name = "div"
       /\ HasAttr(NodeAt(Document, p).attribs, "class")
       /\ Len(NodeAt(Document, p).children) = 2
       /\ NodeAt(Document, p).children[1].type = "comment"
       /\ NodeAt(Document, p).children[2].type = "text"
       /\ Unchanged(p) /\ ChildrenKept(p)
       /\ Unchanged(p \o <<1>>) /\ Unchanged(p \o <<2>>)

====
